---- MODULE Spec2Model ----
(***************************************************************************)
(* catalyst-uploader: the upload pipeline of core/uploader.go.             *)
(*                                                                         *)
(* Strings (URIs, paths) are sequences of one-character strings, byte      *)
(* sequences are sequences of small naturals.  A Go error is the set of    *)
(* its causes (the chain that %w builds); the empty set is the nil error.  *)
(* A *drivers.SaveDataOutput is identified by its URL; the empty sequence  *)
(* is the nil pointer.                                                     *)
(***************************************************************************)
EXTENDS Integers, Sequences, FiniteSets, TLC

(***************************************************************************)
(* Bounds of the model.                                                    *)
(***************************************************************************)
MaxRecords == 2       \* Read calls that return data before the stream ends
MaxTime == 4          \* the clock runs from 0 to MaxTime
MaxOuterAttempts == 2 \* attempts an ExponentialBackOff of UploadRetryBackoff can allow
MaxInnerAttempts == 2 \* attempts an ExponentialBackOff of SingleRequestRetryBackoff can allow

\* the values of the input bytes
Bytes == {1, 2}

(***************************************************************************)
(* Strings.                                                                *)
(***************************************************************************)
\* strings.HasPrefix
HasPrefix(s, prefix) ==
    /\ Len(prefix) <= Len(s)
    /\ SubSeq(s, 1, Len(prefix)) = prefix

\* strings.HasSuffix
HasSuffix(s, suffix) ==
    /\ Len(suffix) <= Len(s)
    /\ SubSeq(s, Len(s) - Len(suffix) + 1, Len(s)) = suffix

\* strings.Index, 1-based; 0 when substr does not occur in s
Index(s, substr) ==
    LET hits == { i \in 1..(Len(s) - Len(substr) + 1) :
                    SubSeq(s, i, i + Len(substr) - 1) = substr }
    IN  IF hits = {} THEN 0 ELSE CHOOSE i \in hits : \A j \in hits : i <= j

\* strings.Contains
Contains(s, substr) == Index(s, substr) # 0

\* strings.Replace(s, old, new, 1): the first occurrence of old is replaced
Replace(s, old, new) ==
    LET i == Index(s, old)
    IN  IF i = 0 THEN s
        ELSE SubSeq(s, 1, i - 1) \o new \o SubSeq(s, i + Len(old), Len(s))

\* filepath.Ext: the suffix beginning at the final dot of the final path element
Ext(path) ==
    LET dots == { i \in 1..Len(path) :
                    /\ path[i] = "."
                    /\ \A j \in i..Len(path) : path[j] # "/" }
    IN  IF dots = {} THEN <<>>
        ELSE SubSeq(path, CHOOSE i \in dots : \A j \in dots : j <= i, Len(path))

(***************************************************************************)
(* URLs.  A URL is one character naming scheme, credentials and host,      *)
(* followed by the path, which begins with "/".                            *)
(***************************************************************************)
\* url.URL.Path
Path(u) == Tail(u)

\* the elements of a slash-separated path, e.g. "/a/b" gives <<"a", "b">>
RECURSIVE Split(_)
Split(p) ==
    IF p = <<>> THEN << <<>> >>
    ELSE LET rest == Split(Tail(p))
         IN  IF Head(p) = "/" THEN << <<>> >> \o rest
             ELSE << <<Head(p)>> \o Head(rest) >> \o Tail(rest)

\* path.Clean of a rooted path, on its elements: empty and "." elements are
\* dropped, ".." removes the element before it and is dropped at the root
RECURSIVE CleanElems(_, _)
CleanElems(elems, acc) ==
    IF elems = <<>> THEN acc
    ELSE LET e == Head(elems)
         IN  IF e = <<>> \/ e = <<".">> THEN CleanElems(Tail(elems), acc)
             ELSE IF e = <<".", ".">>
                  THEN CleanElems(Tail(elems),
                                  IF acc = <<>> THEN acc ELSE SubSeq(acc, 1, Len(acc) - 1))
                  ELSE CleanElems(Tail(elems), Append(acc, e))

RECURSIVE JoinElems(_)
JoinElems(elems) ==
    IF elems = <<>> THEN <<>>
    ELSE <<"/">> \o Head(elems) \o JoinElems(Tail(elems))

\* url.URL.JoinPath(elem): path.Join of the URL's path and elem
JoinPath(u, elem) ==
    LET cleaned == JoinElems(CleanElems(Split(Path(u) \o <<"/">> \o elem), <<>>))
    IN  <<Head(u)>> \o (IF cleaned = <<>> THEN <<"/">> ELSE cleaned)

(***************************************************************************)
(* Errors.                                                                 *)
(***************************************************************************)
NilErr == {}
Cause(kind, u) == { <<kind, u>> }
\* io.EOF and an error of the input stream
EOF == Cause("EOF", <<>>)
ReadFailure == Cause("read", <<>>)
\* fmt.Errorf(msg + ": %w", e): a non-nil error that wraps e
Errorf(msg, e) == Cause(msg, <<>>) \cup e

(***************************************************************************)
(* The arguments of Upload that the model explores.                        *)
(***************************************************************************)
LatestPng == <<"l", ".", "p", "n", "g">>
SegmentTs == <<"p", "/", "s", "/", "d", "/", "x", ".", "t", "s">>
SegmentMp4 == <<"p", "/", "x", ".", "m", "p", "4">>
ManifestM3u8 == <<"p", "/", "s", "/", "i", ".", "m", "3", "u", "8">>
ManifestNoExt == <<"p", "/", "a", ".", "t", "s", "/", "i">>
SegmentUnknownScheme == <<"u", "/", "x", ".", "t", "s">>
Destinations == {SegmentTs, SegmentMp4, ManifestM3u8, ManifestNoExt, SegmentUnknownScheme}

\* storageFallbackURLs: a Go map, here the set of its (primary, backup) entries
Entry(primary, backup) == [primary |-> primary, backup |-> backup]
FallbackMaps ==
    { {},
      { Entry(<<"p", "/">>, <<"b", "/">>), Entry(<<"u", "/">>, <<"b", "/">>) },
      { Entry(<<"p", "/">>, <<"b", "/">>), Entry(<<"p", "/", "s", "/">>, <<"c", "/">>) },
      { Entry(<<"p", "/">>, <<"u", "/">>) } }

\* disableThumbs
DisableLists == { {}, { <<"d">> } }

\* waitBetweenWrites, in clock ticks
WaitChoices == {0, 1}

\* the records a Read call can return
Records == { <<b>> : b \in Bytes }

\* the image that ffmpeg writes to out.png
Image == <<0>>

\* drivers.ParseOSURL succeeds on the schemes that have a driver
ParseOSURLOk(u) == Head(u) # "u"

DotTs == <<".", "t", "s">>
DotMp4 == <<".", "m", "p", "4">>

\* a test that looks for .ts or .mp4 anywhere in the path
IsSegmentAnywhere(u) == Contains(Path(u), DotTs) \/ Contains(Path(u), DotMp4)

\* the test of Upload that selects the one-shot segment path
IsSegment(u) == Ext(Path(u)) = DotTs \/ Ext(Path(u)) = DotMp4

Tasks == {"main", "thumb1", "thumb2"}
ThumbTasks == {"thumb1", "thumb2"}

VARIABLES
    outputURI,            \* Upload's destination
    waitBetweenWrites,    \* Upload's minimum interval between periodic writes
    storageFallbackURLs,  \* Upload's failover map
    disableThumbs,        \* Upload's list of playback ids without thumbnails
    pc,                   \* position of Upload / extractThumb
    now,                  \* the clock, time.Now()
    lastWrite,            \* Upload's lastWrite
    reads,                \* results of the Read calls on the input so far
    token,                \* scanner.Bytes()
    scanErr,              \* the scanner's sticky error
    inputFile,            \* content of the temp file inputFileName
    thumbFile,            \* content of tmpDir/out.png, <<>> while absent
    tmpDir,               \* TRUE while extractThumb's tmpDir exists
    storage,              \* object store: URL -> content of the object
    uf,                   \* per task: the running uploadFileWithBackup call
    tpc,                  \* per thumbnail task: position in the goroutine
    thumbErr,             \* extractThumb's err, shared by the two goroutines
    groupErr,             \* the errgroup's first error
    thumbRet,             \* what extractThumb returned
    out,                  \* Upload's out: the result of the segment upload
    result,               \* what Upload returned: [out, err]
    flushRef,             \* time when Upload started or the last periodic flush returned
    flushLog,             \* outcome of every periodic flush so far: TRUE iff it failed
    primaryFailed,        \* an uploadFile of Upload on outputURI has failed
    callFailed            \* per thumbnail task: its uploadFileWithBackup returned an error

(***************************************************************************)
(* drivers.OverwriteQueue: one producer calling Save, the worker goroutine *)
(* started by NewOverwriteQueue, and the goroutine started by StopAfter.    *)
(* A payload is identified by its position in the order of the Save calls. *)
(***************************************************************************)
VARIABLES
    maxRetries,           \* oq.maxRetries
    initialTimeout,       \* oq.initialTimeout
    maxTimeout,           \* oq.maxTimeout
    queue,                \* oq.queue: the payloads buffered in the channel
    quit,                 \* oq.quit is closed
    stopTimer,            \* the goroutine of StopAfter is sleeping
    wpc,                  \* position of workerLoop
    wdata,                \* workerLoop's data
    try,                  \* workerLoop's try
    timeout,              \* workerLoop's timeout
    object,               \* the payload stored under oq.name, 0 while there is none
    produced,             \* number of Save calls made so far
    owed                  \* quit was closed over a waiting payload and no attempt drained since

oqVars == <<maxRetries, initialTimeout, maxTimeout, queue, quit, stopTimer, wpc, wdata,
            try, timeout, object, produced, owed>>

\* no OverwriteQueue has been constructed
NoQueue ==
    /\ maxRetries = 0
    /\ initialTimeout = 0
    /\ maxTimeout = 0
    /\ queue = <<>>
    /\ quit = FALSE
    /\ stopTimer = FALSE
    /\ wpc = "none"
    /\ wdata = 0
    /\ try = 0
    /\ timeout = 0
    /\ object = 0
    /\ produced = 0
    /\ owed = FALSE

(***************************************************************************)
(* drivers.FSSession.SaveData and handlers.FileHandler.Upload: one call    *)
(* that copies a reader into a file of the local file system.              *)
(***************************************************************************)
VARIABLES
    fsKind,               \* "FSSession" or "FileHandler": whose method is called
    fsBase,               \* ostore.os.baseURI as a string, <<>> for nil
    fsName,               \* the name argument, for FileHandler the uri argument
    fsData,               \* the bytes that the reader holds
    fsPos,                \* how many of them the Read calls have returned
    fsCtxDone,            \* ctx is cancelled
    fsPc,                 \* position of the call
    files,                \* the file system: path -> content of the file
    fsBefore,             \* the file system when the call was made
    fsRet                 \* what the call returned: [path, err]

fsVars == <<fsKind, fsBase, fsName, fsData, fsPos, fsCtxDone, fsPc, files, fsBefore, fsRet>>

\* no file-system call is made
NoFS ==
    /\ fsKind = "none"
    /\ fsBase = <<>>
    /\ fsName = <<>>
    /\ fsData = <<>>
    /\ fsPos = 0
    /\ fsCtxDone = FALSE
    /\ fsPc = "none"
    /\ files = [p \in {} |-> <<>>]
    /\ fsBefore = [p \in {} |-> <<>>]
    /\ fsRet = [path |-> <<>>, err |-> NilErr]

(***************************************************************************)
(* The command catalyst-uploader: run() around one call of Upload.         *)
(***************************************************************************)
VARIABLES
    cliArgs,              \* what the command line holds
    cliVerbose,           \* glog.V(5)
    cliPc,                \* position of run()
    stdout,               \* what the process has written to its standard output
    exitCode              \* what run() returned, -1 while it runs

cliVars == <<cliArgs, cliVerbose, cliPc, stdout, exitCode>>

\* the command is not run
NoCLI ==
    /\ cliArgs = "none"
    /\ cliVerbose = FALSE
    /\ cliPc = "none"
    /\ stdout = <<>>
    /\ exitCode = -1

uploadVars == <<outputURI, waitBetweenWrites, storageFallbackURLs, disableThumbs, pc,
                now, lastWrite, reads, token, scanErr, inputFile, thumbFile, tmpDir,
                storage, uf, tpc, thumbErr, groupErr, thumbRet, out, result, flushRef,
                flushLog, primaryFailed, callFailed>>

vars == <<uploadVars, oqVars, fsVars, cliVars>>

params == <<outputURI, waitBetweenWrites, storageFallbackURLs, disableThumbs>>
inputVars == <<reads, token, scanErr, inputFile>>
thumbVars == <<thumbFile, tmpDir, tpc, thumbErr, groupErr, thumbRet, out, callFailed>>

IdleCall ==
    [pc |-> "idle", site |-> "none", uri |-> <<>>, backupURI |-> <<>>, file |-> "input",
     withRetries |-> FALSE, outer |-> 0, inner |-> 0, out |-> <<>>, bytesWritten |-> 0,
     primaryErr |-> NilErr, backupErr |-> NilErr, opErr |-> NilErr, err |-> NilErr,
     saved |-> <<>>, consumed |-> 0]

\* Upload is called
UploadInit ==
    /\ outputURI \in Destinations
    /\ waitBetweenWrites \in WaitChoices
    /\ storageFallbackURLs \in FallbackMaps
    /\ disableThumbs \in DisableLists
    \* an argument that the path taken for outputURI never reads has one value
    /\ IsSegment(outputURI) => waitBetweenWrites = 0
    /\ ~IsSegment(outputURI) => disableThumbs = {}
    /\ pc = "start"
    /\ now = 0
    /\ lastWrite = 0
    /\ reads = <<>>
    /\ token = <<>>
    /\ scanErr = NilErr
    /\ inputFile = <<>>
    /\ thumbFile = <<>>
    /\ tmpDir = FALSE
    /\ storage = [u \in {} |-> <<>>]
    /\ uf = [t \in Tasks |-> IdleCall]
    /\ tpc = [t \in ThumbTasks |-> "idle"]
    /\ thumbErr = NilErr
    /\ groupErr = NilErr
    /\ thumbRet = NilErr
    /\ out = <<>>
    /\ result = [out |-> <<>>, err |-> NilErr]
    /\ flushRef = 0
    /\ flushLog = <<>>
    /\ primaryFailed = FALSE
    /\ callFailed = [t \in ThumbTasks |-> FALSE]

Init == UploadInit /\ NoQueue /\ NoFS /\ NoCLI

\* no Upload is running: the state of a call that has not taken a step
NoUpload ==
    /\ UploadInit
    /\ outputURI = ManifestM3u8
    /\ waitBetweenWrites = 0
    /\ storageFallbackURLs = {}

(***************************************************************************)
(* Storage driver (external): SaveData either stores the whole payload and *)
(* returns the URL, or fails and leaves the object store as it was.        *)
(***************************************************************************)
FileContent(file) == IF file = "input" THEN inputFile ELSE thumbFile

\* the object store after a successful session.SaveData of data at u
SaveData(store, u, data) ==
    [x \in DOMAIN store \cup {u} |-> IF x = u THEN data ELSE store[x]]

Stored(u) == IF u \in DOMAIN storage THEN storage[u] ELSE <<>>

\* a backoff that retries under every profile
NextBackOffStopsAnyProfile(withRetries, attempt, maxAttempts) ==
    IF attempt >= maxAttempts THEN {TRUE} ELSE {TRUE, FALSE}

(***************************************************************************)
(* backoff.Retry (external).  StopBackOff.NextBackOff always returns Stop. *)
(* ExponentialBackOff.NextBackOff returns Stop once the elapsed time plus  *)
(* the next interval exceeds MaxElapsedTime, which depends on how long the *)
(* attempts took: any attempt can be the last one, and maxAttempts bounds  *)
(* their number.  The result is the set of possible answers to "Stop?".    *)
(***************************************************************************)
NextBackOffStops(withRetries, attempt, maxAttempts) ==
    IF ~withRetries THEN {TRUE}
    ELSE IF attempt >= maxAttempts THEN {TRUE}
    ELSE {TRUE, FALSE}

\* The bytes a failing SaveData can have consumed from the file: any number up
\* to its length; the model explores none and all of them.
ConsumedOnFailure(data) == {0, Len(data)}

\* what one session.SaveData call on u can do
SaveDataOutcomes(u, data) ==
    { [ok |-> TRUE, out |-> u, n |-> Len(data), err |-> NilErr] }
    \cup { [ok |-> FALSE, out |-> <<>>, n |-> n, err |-> Cause("save", u)] :
              n \in ConsumedOnFailure(data) }

\* an error that reports the backup failure only
BothFailedBackupOnly(primaryErr, backupErr) == Errorf("upload file errors", backupErr)

\* the error returned by the backoff operation when primary and backup failed
BothFailed(primaryErr, backupErr) ==
    Errorf("upload file errors", primaryErr \cup backupErr)

\* the entries of the failover map that buildBackupURI's range loop can hit
\* first: Go iterates a map in an unspecified order
MatchingEntries(u, fallbackURLs) == { e \in fallbackURLs : HasPrefix(u, e.primary) }

\* a buildBackupURI that puts the backup prefix in front of the whole URI
BuildBackupURIPrepends(u, fallbackURLs) ==
    { e.backup \o u : e \in MatchingEntries(u, fallbackURLs) }

\* buildBackupURI: the URIs it can return; empty when it returns an error
BuildBackupURI(u, fallbackURLs) ==
    { Replace(u, e.primary, e.backup) : e \in MatchingEntries(u, fallbackURLs) }

\* uploadFileWithBackup is entered
NewCall(site, u, file, withRetries) ==
    [IdleCall EXCEPT !.pc = "primary", !.site = site, !.uri = u, !.file = file,
                     !.withRetries = withRetries, !.outer = 1, !.inner = 1]

\* backoff.Retry returns e: the locals of the operation are gone
Finish(c, e) ==
    [c EXCEPT !.err = e, !.pc = "ret", !.outer = 0, !.inner = 0, !.primaryErr = NilErr,
              !.backupErr = NilErr, !.opErr = NilErr, !.backupURI = <<>>]

\* an operation that goes on to the backup whatever the primary returned
PrimaryReturnedAlwaysFailsOver(c, o, n, e) ==
    [c EXCEPT !.out = o, !.bytesWritten = n, !.primaryErr = e, !.pc = "failover"]

\* an operation that returns nil to backoff.Retry without ending it
PrimaryReturnedGoesOn(c, o, n, e) ==
    LET c1 == [c EXCEPT !.out = o, !.bytesWritten = n, !.primaryErr = e]
    IN  IF e = NilErr THEN [c1 EXCEPT !.pc = "backoff"]
        ELSE [c1 EXCEPT !.pc = "failover"]

\* the backoff operation after uploadFile(outputURI, ...) returned (o, n, e):
\* nil ends backoff.Retry, an error leads to the failover
PrimaryReturned(c, o, n, e) ==
    LET c1 == [c EXCEPT !.out = o, !.bytesWritten = n, !.primaryErr = e]
    IN  IF e = NilErr THEN Finish(c1, NilErr)
        ELSE [c1 EXCEPT !.pc = "failover"]

\* a backup branch that returns the primary's error whatever the backup did
BackupReturnedKeepsPrimaryErr(c, o, n, e) ==
    LET c1 == [c EXCEPT !.out = o, !.bytesWritten = n, !.backupErr = e]
    IN  [c1 EXCEPT !.opErr = c.primaryErr, !.pc = "backoff"]

\* a backup branch that adds its bytes to those of the primary
BackupReturnedAddsBytes(c, o, n, e) ==
    LET c1 == [c EXCEPT !.out = o, !.bytesWritten = c.bytesWritten + n, !.backupErr = e]
    IN  IF e = NilErr THEN Finish(c1, NilErr)
        ELSE [c1 EXCEPT !.opErr = BothFailed(c.primaryErr, e), !.pc = "backoff"]

\* the backoff operation after uploadFile(backupURI, ...) returned (o, n, e)
BackupReturned(c, o, n, e) ==
    LET c1 == [c EXCEPT !.out = o, !.bytesWritten = n, !.backupErr = e]
    IN  IF e = NilErr THEN Finish(c1, NilErr)
        ELSE [c1 EXCEPT !.opErr = BothFailed(c.primaryErr, e), !.pc = "backoff"]

\* where the backoff operation goes on after uploadFile returned (o, n, e)
Returned(onBackup, c, o, n, e) ==
    IF onBackup THEN BackupReturned(c, o, n, e) ELSE PrimaryReturned(c, o, n, e)

\* One step of uploadFile on u for the call of task t: drivers.ParseOSURL
\* fails and uploadFile returns, or one SaveData attempt of the retry loop is
\* made, after which uploadFile returns or the loop goes on.  saved, consumed
\* and primaryFailed record what happened at the object store: where the
\* payload was stored and how many bytes the last attempt read from the file.
UploadFileAttempt(t, u, onBackup) ==
    LET c == uf[t]
        data == FileContent(c.file)
        onPrimary == t = "main" /\ u = c.uri
    IN  IF ~ParseOSURLOk(u)
        THEN /\ uf' = [uf EXCEPT ![t] = Returned(onBackup, [c EXCEPT !.consumed = 0],
                                                  <<>>, 0, Cause("driver", u))]
             /\ primaryFailed' = (primaryFailed \/ onPrimary)
             /\ UNCHANGED storage
        ELSE \E r \in SaveDataOutcomes(u, data) :
                /\ storage' = IF r.ok THEN SaveData(storage, u, data) ELSE storage
                /\ primaryFailed' = (primaryFailed \/ (onPrimary /\ ~r.ok))
                /\ \E stop \in IF r.ok THEN {TRUE}
                               ELSE NextBackOffStops(c.withRetries, c.inner, MaxInnerAttempts) :
                      uf' = [uf EXCEPT ![t] =
                               IF stop
                               THEN Returned(onBackup,
                                             [c EXCEPT !.saved = IF r.ok THEN u ELSE @,
                                                       !.consumed = r.n],
                                             r.out, r.n, r.err)
                               ELSE [c EXCEPT !.inner = c.inner + 1, !.consumed = r.n]]

\* The steps of the two thumbnail uploads touch disjoint state (each its own
\* call; the object store receives the same image from both), so they commute
\* and one order of them is explored: the second upload runs its steps after
\* the first one returned.  The accesses of the two goroutines to the shared
\* err of extractThumb are interleaved in every order.
Running(t) == uf[t].pc \in {"primary", "failover", "backup", "backoff"}
Scheduled(t) == t = "thumb2" => ~Running("thumb1")

\* uploadFile(outputURI, ...) inside the backoff operation
PrimaryWrite(t) ==
    /\ uf[t].pc = "primary"
    /\ Scheduled(t)
    /\ UploadFileAttempt(t, uf[t].uri, FALSE)
    /\ UNCHANGED <<cliVars, fsVars, oqVars, params, pc, now, lastWrite, inputVars, thumbVars, result,
                   flushRef, flushLog>>

\* buildBackupURI after the primary failed: without a backup URI the
\* operation returns the primary's error
Failover(t) ==
    /\ uf[t].pc = "failover"
    /\ Scheduled(t)
    /\ LET c == uf[t]
           backups == BuildBackupURI(c.uri, storageFallbackURLs)
       IN  IF backups = {}
           THEN uf' = [uf EXCEPT ![t] = [c EXCEPT !.opErr = c.primaryErr,
                                                  !.pc = "backoff"]]
           ELSE \E b \in backups :
                   uf' = [uf EXCEPT ![t] = [c EXCEPT !.backupURI = b, !.inner = 1,
                                                     !.pc = "backup"]]
    /\ UNCHANGED <<cliVars, fsVars, oqVars, params, pc, now, lastWrite, inputVars, thumbVars, storage,
                   result, flushRef, flushLog, primaryFailed>>

\* uploadFile(backupURI, ...) inside the backoff operation
BackupWrite(t) ==
    /\ uf[t].pc = "backup"
    /\ Scheduled(t)
    /\ UploadFileAttempt(t, uf[t].backupURI, TRUE)
    /\ UNCHANGED <<cliVars, fsVars, oqVars, params, pc, now, lastWrite, inputVars, thumbVars, result,
                   flushRef, flushLog>>

\* a backoff.Retry whose policy starts afresh before every new attempt
OuterBackoffStartsAfresh(t) ==
    /\ uf[t].pc = "backoff"
    /\ Scheduled(t)
    /\ LET c == uf[t]
       IN  \E stop \in NextBackOffStops(c.withRetries, c.outer, MaxOuterAttempts) :
              uf' = [uf EXCEPT ![t] =
                       IF stop THEN Finish(c, c.opErr)
                       ELSE [c EXCEPT !.outer = 1, !.inner = 1,
                                      !.primaryErr = NilErr, !.backupErr = NilErr,
                                      !.opErr = NilErr, !.backupURI = <<>>,
                                      !.pc = "primary"]]
    /\ UNCHANGED <<cliVars, fsVars, oqVars, params, pc, now, lastWrite, inputVars, thumbVars, storage,
                   result, flushRef, flushLog, primaryFailed>>

\* backoff.Retry after the operation returned an error: stop and return it,
\* or run the operation again
OuterBackoff(t) ==
    /\ uf[t].pc = "backoff"
    /\ Scheduled(t)
    /\ LET c == uf[t]
       IN  \E stop \in NextBackOffStops(c.withRetries, c.outer, MaxOuterAttempts) :
              uf' = [uf EXCEPT ![t] =
                       IF stop THEN Finish(c, c.opErr)
                       ELSE [c EXCEPT !.outer = c.outer + 1, !.inner = 1,
                                      !.primaryErr = NilErr, !.backupErr = NilErr,
                                      !.opErr = NilErr, !.backupURI = <<>>,
                                      !.pc = "primary"]]
    /\ UNCHANGED <<cliVars, fsVars, oqVars, params, pc, now, lastWrite, inputVars, thumbVars, storage,
                   result, flushRef, flushLog, primaryFailed>>

(***************************************************************************)
(* The input stream (external): what one Read call can return.  Data is    *)
(* one record; the stream ends with io.EOF or fails, with or without data  *)
(* in the same call.                                                       *)
(***************************************************************************)
DataReads == { i \in 1..Len(reads) : reads[i].data # <<>> }

ReadOutcomes ==
    { [data |-> <<>>, err |-> e] : e \in {EOF, ReadFailure} }
    \cup (IF Cardinality(DataReads) < MaxRecords
          THEN { [data |-> d, err |-> e] : d \in Records, e \in {NilErr, EOF, ReadFailure} }
          ELSE {})

\* concatenation of the data of the first n Read results
RECURSIVE ConcatReads(_, _)
ConcatReads(rs, n) ==
    IF n = 0 THEN <<>> ELSE ConcatReads(rs, n - 1) \o rs[n].data

(***************************************************************************)
(* Upload.                                                                 *)
(***************************************************************************)
Return(o, e) == [out |-> o, err |-> e]

\* Upload up to the branch on the extension; the manifest path sets lastWrite
UploadStart ==
    /\ pc = "start"
    /\ IF IsSegment(outputURI)
       THEN /\ pc' = "copy"
            /\ UNCHANGED lastWrite
       ELSE /\ pc' = "scan"
            /\ lastWrite' = now
    /\ flushRef' = now
    /\ UNCHANGED <<cliVars, fsVars, oqVars, params, now, inputVars, thumbVars, storage, uf, result,
                   flushLog, primaryFailed>>

\* a copy loop that looks at the error first and drops the data that came with it
CopyChunkChecksErrFirst(file, r) == IF r.err = NilErr THEN file \o r.data ELSE file

\* io.Copy writes what a Read returned before it looks at the error of the Read
CopyChunk(file, r) == file \o r.data

\* a copy loop that starts the segment upload after every Read that brought data
CopyReadUploadsEachChunk ==
    /\ pc = "copy"
    /\ \E r \in ReadOutcomes :
          /\ reads' = Append(reads, r)
          /\ inputFile' = CopyChunk(inputFile, r)
          /\ IF r.err = ReadFailure
             THEN /\ pc' = "done"
                  /\ result' = Return(<<>>, Errorf("failed to write to temp file", r.err))
                  /\ UNCHANGED uf
             ELSE IF r.err = EOF \/ r.data # <<>>
                  THEN /\ pc' = "segment"
                       /\ uf' = [uf EXCEPT !["main"] =
                                   NewCall("segment", outputURI, "input", TRUE)]
                       /\ UNCHANGED result
                  ELSE UNCHANGED <<pc, uf, result>>
    /\ UNCHANGED <<cliVars, fsVars, oqVars, params, now, lastWrite, token, scanErr, thumbVars, storage, flushRef, flushLog, primaryFailed>>

\* one iteration of io.Copy(inputFile, input); at the end of the input the
\* segment upload with retries starts
CopyRead ==
    /\ pc = "copy"
    /\ \E r \in ReadOutcomes :
          /\ reads' = Append(reads, r)
          /\ inputFile' = CopyChunk(inputFile, r)
          /\ IF r.err = NilErr
             THEN UNCHANGED <<pc, uf, result>>
             ELSE IF r.err = EOF
                  THEN /\ pc' = "segment"
                       /\ uf' = [uf EXCEPT !["main"] =
                                   NewCall("segment", outputURI, "input", TRUE)]
                       /\ UNCHANGED result
                  ELSE /\ pc' = "done"
                       /\ result' = Return(<<>>, Errorf("failed to write to temp file", r.err))
                       /\ UNCHANGED uf
    /\ UNCHANGED <<cliVars, fsVars, oqVars, params, now, lastWrite, token, scanErr, thumbVars, storage, flushRef, flushLog, primaryFailed>>

\* Upload after uploadFileWithBackup returned for the segment
SegmentUploaded ==
    /\ pc = "segment"
    /\ uf["main"].pc = "ret"
    /\ out' = uf["main"].out
    /\ uf' = [uf EXCEPT !["main"] = IdleCall]
    /\ IF uf["main"].err # NilErr
       THEN /\ pc' = "done"
            /\ result' = Return(<<>>, Errorf("failed to upload video", uf["main"].err))
       ELSE /\ pc' = "thumb"
            /\ UNCHANGED result
    /\ UNCHANGED <<cliVars, fsVars, oqVars, params, now, lastWrite, inputVars, thumbFile, tmpDir, tpc, thumbErr,
                   groupErr, thumbRet, storage, flushRef, flushLog, primaryFailed, callFailed>>

\* scanner.Scan(): one Read.  Data read without an error is the next token;
\* with an error (io.EOF included) the split function is called atEOF and
\* returns no token, so Scan returns false
ScanRead ==
    /\ pc = "scan"
    /\ \E r \in ReadOutcomes :
          /\ reads' = Append(reads, r)
          /\ IF r.err = NilErr
             THEN /\ token' = r.data
                  /\ pc' = "append"
                  /\ UNCHANGED scanErr
             ELSE /\ scanErr' = r.err
                  /\ pc' = "scanned"
                  /\ UNCHANGED token
    /\ UNCHANGED <<cliVars, fsVars, oqVars, params, now, lastWrite, inputFile, thumbVars, storage, uf,
                   result, flushRef, flushLog, primaryFailed>>

\* a condition that also holds when exactly waitBetweenWrites has elapsed
WriteIsDueNotAfter == lastWrite + waitBetweenWrites <= now

\* the condition of the periodic write
WriteIsDue == lastWrite + waitBetweenWrites < now

\* the body of the scan loop: the token is appended to the temp file, and the
\* periodic write without retries starts if it is due
AppendRecord ==
    /\ pc = "append"
    /\ inputFile' = inputFile \o token
    /\ IF WriteIsDue
       THEN /\ pc' = "periodic"
            /\ uf' = [uf EXCEPT !["main"] = NewCall("periodic", outputURI, "input", FALSE)]
       ELSE /\ pc' = "scan"
            /\ UNCHANGED uf
    /\ UNCHANGED <<cliVars, fsVars, oqVars, params, now, lastWrite, reads, token, scanErr, thumbVars, storage,
                   result, flushRef, flushLog, primaryFailed>>

\* a periodic write whose error ends Upload
PeriodicWrittenReturnsErr ==
    /\ pc = "periodic"
    /\ uf["main"].pc = "ret"
    /\ lastWrite' = now
    /\ flushRef' = now
    /\ flushLog' = Append(flushLog, uf["main"].err # NilErr)
    /\ uf' = [uf EXCEPT !["main"] = IdleCall]
    /\ IF uf["main"].err # NilErr
       THEN /\ pc' = "done"
            /\ result' = Return(<<>>, Errorf("failed to write", uf["main"].err))
       ELSE /\ pc' = "scan"
            /\ UNCHANGED result
    /\ UNCHANGED <<cliVars, fsVars, oqVars, params, now, inputVars, thumbVars, storage, primaryFailed>>

\* the periodic write returned: its error is only logged
PeriodicWritten ==
    /\ pc = "periodic"
    /\ uf["main"].pc = "ret"
    /\ lastWrite' = now
    /\ pc' = "scan"
    /\ flushRef' = now
    /\ flushLog' = Append(flushLog, uf["main"].err # NilErr)
    /\ uf' = [uf EXCEPT !["main"] = IdleCall]
    /\ UNCHANGED <<cliVars, fsVars, oqVars, params, now, inputVars, thumbVars, storage, result, primaryFailed>>

\* a scanner whose Err() is always nil
ScannerErrDropped == NilErr

\* scanner.Err(): io.EOF is not an error
ScannerErr == IF scanErr = EOF THEN NilErr ELSE scanErr

\* withRetries of the final write
FinalWriteWithRetries == FALSE

\* an end of the scan loop that makes no final write for an empty temp file
ScanDoneSkipsEmpty ==
    /\ pc = "scanned"
    /\ IF ScannerErr # NilErr \/ inputFile = <<>>
       THEN /\ pc' = "done"
            /\ result' = Return(<<>>, ScannerErr)
            /\ UNCHANGED uf
       ELSE /\ pc' = "final"
            /\ uf' = [uf EXCEPT !["main"] =
                        NewCall("final", outputURI, "input", FinalWriteWithRetries)]
            /\ UNCHANGED result
    /\ UNCHANGED <<cliVars, fsVars, oqVars, params, now, lastWrite, inputVars, thumbVars, storage, flushRef,
                   flushLog, primaryFailed>>

\* after the scan loop: a read error is returned, otherwise the final write starts
ScanDone ==
    /\ pc = "scanned"
    /\ IF ScannerErr # NilErr
       THEN /\ pc' = "done"
            /\ result' = Return(<<>>, ScannerErr)
            /\ UNCHANGED uf
       ELSE /\ pc' = "final"
            /\ uf' = [uf EXCEPT !["main"] =
                        NewCall("final", outputURI, "input", FinalWriteWithRetries)]
            /\ UNCHANGED result
    /\ UNCHANGED <<cliVars, fsVars, oqVars, params, now, lastWrite, inputVars, thumbVars, storage, flushRef, flushLog, primaryFailed>>

\* the final write returned
FinalWritten ==
    /\ pc = "final"
    /\ uf["main"].pc = "ret"
    /\ pc' = "done"
    /\ result' = IF uf["main"].err # NilErr
                 THEN Return(<<>>, Errorf("failed to write final save", uf["main"].err))
                 ELSE Return(<<>>, NilErr)
    /\ UNCHANGED <<cliVars, fsVars, oqVars, params, now, lastWrite, inputVars, thumbVars, storage, uf,
                   flushRef, flushLog, primaryFailed>>

\* time passes while Upload waits for input or for the object store
Tick ==
    /\ pc \in {"scan", "periodic"}
    /\ now < MaxTime
    /\ now' = now + 1
    /\ UNCHANGED <<cliVars, fsVars, oqVars, params, pc, lastWrite, inputVars, thumbVars, storage, uf,
                   result, flushRef, flushLog, primaryFailed>>

(***************************************************************************)
(* extractThumb.  thumbsURLReplacement is empty in every run of the model. *)
(***************************************************************************)
\* the two thumbnail URLs: session level and stream level
ThumbURL(t) ==
    IF t = "thumb1" THEN JoinPath(outputURI, <<".", ".", "/">> \o LatestPng)
    ELSE JoinPath(outputURI, <<".", ".", "/", ".", ".", "/", ".", ".", "/">> \o LatestPng)

\* a first loop that looks for an entry equal to the whole path
ThumbsDisabledWholePath == \E playbackID \in disableThumbs : Path(outputURI) = playbackID

\* the first loop of extractThumb
ThumbsDisabled == \E playbackID \in disableThumbs : Contains(Path(outputURI), playbackID)

\* an Upload that returns the error of extractThumb
ThumbReturnPropagates(e) ==
    /\ thumbRet' = e
    /\ tmpDir' = FALSE
    /\ thumbFile' = <<>>
    /\ pc' = "done"
    /\ result' = IF e # NilErr THEN Return(<<>>, e) ELSE Return(out, NilErr)

\* extractThumb returned e to Upload, which logs it and returns the segment's result
ThumbReturn(e) ==
    /\ thumbRet' = e
    /\ tmpDir' = FALSE
    /\ thumbFile' = <<>>
    /\ pc' = "done"
    /\ result' = Return(out, NilErr)

\* extractThumb up to the creation of tmpDir
ExtractThumbStart ==
    /\ pc = "thumb"
    /\ IF ThumbsDisabled
       THEN /\ ThumbReturn(NilErr)
       ELSE /\ tmpDir' = TRUE
            /\ pc' = "ffmpeg"
            /\ UNCHANGED <<thumbRet, thumbFile, result>>
    /\ UNCHANGED <<cliVars, fsVars, oqVars, params, now, lastWrite, inputVars, tpc, thumbErr, groupErr, out,
                   storage, uf, flushRef, flushLog, primaryFailed, callFailed>>

\* cmd.Run() of ffmpeg: it fails (exit code, timeout), or it wrote out.png and
\* one goroutine per thumbnail URL is started
RunFfmpeg ==
    /\ pc = "ffmpeg"
    /\ \/ /\ ThumbReturn(Errorf("ffmpeg failed", Cause("exit", <<>>)))
          /\ UNCHANGED <<thumbErr, tpc, uf>>
       \/ /\ thumbFile' = Image
          /\ thumbErr' = NilErr
          /\ tpc' = [t \in ThumbTasks |-> "upload"]
          /\ uf' = [t \in Tasks |->
                      IF t \in ThumbTasks THEN NewCall("thumb", ThumbURL(t), "thumb", TRUE)
                      ELSE uf[t]]
          /\ pc' = "wait"
          /\ UNCHANGED <<thumbRet, tmpDir, result>>
    /\ UNCHANGED <<cliVars, fsVars, oqVars, params, now, lastWrite, inputVars, groupErr, out, storage, flushRef, flushLog, primaryFailed, callFailed>>

\* goroutine t: uploadFileWithBackup returned and its error is stored in the
\* err variable of extractThumb, which both goroutines share
ThumbAssign(t) ==
    /\ tpc[t] = "upload"
    /\ uf[t].pc = "ret"
    /\ thumbErr' = uf[t].err
    /\ tpc' = [tpc EXCEPT ![t] = "check"]
    /\ uf' = [uf EXCEPT ![t] = IdleCall]
    /\ callFailed' = [callFailed EXCEPT ![t] = uf[t].err # NilErr]
    /\ UNCHANGED <<cliVars, fsVars, oqVars, params, pc, now, lastWrite, inputVars, thumbFile, tmpDir, groupErr,
                   thumbRet, out, storage, result, flushRef, flushLog, primaryFailed>>

\* errgroup.Group.Go: the first non-nil error returned by a goroutine is kept
GroupDone(e) == IF e # NilErr /\ groupErr = NilErr THEN e ELSE groupErr

\* goroutine t: "if err != nil" reads the shared err, then the goroutine
\* returns nil or wraps what err holds by then
ThumbCheck(t) ==
    /\ tpc[t] = "check"
    /\ IF thumbErr # NilErr
       THEN /\ tpc' = [tpc EXCEPT ![t] = "wrap"]
            /\ UNCHANGED groupErr
       ELSE /\ tpc' = [tpc EXCEPT ![t] = "done"]
            /\ groupErr' = GroupDone(NilErr)
    /\ UNCHANGED <<cliVars, fsVars, oqVars, params, pc, now, lastWrite, inputVars, thumbFile, tmpDir, thumbErr,
                   thumbRet, out, storage, uf, result, flushRef, flushLog, primaryFailed, callFailed>>

\* goroutine t: return fmt.Errorf("saving thumbnail failed: %w", err)
ThumbWrap(t) ==
    /\ tpc[t] = "wrap"
    /\ tpc' = [tpc EXCEPT ![t] = "done"]
    /\ groupErr' = GroupDone(Errorf("saving thumbnail failed", thumbErr))
    /\ UNCHANGED <<cliVars, fsVars, oqVars, params, pc, now, lastWrite, inputVars, thumbFile, tmpDir, thumbErr,
                   thumbRet, out, storage, uf, result, flushRef, flushLog, primaryFailed, callFailed>>

\* a Wait that returns as soon as one goroutine is done
ThumbWaitForOne ==
    /\ pc = "wait"
    /\ \E t \in ThumbTasks : tpc[t] = "done"
    /\ ThumbReturn(groupErr)
    /\ UNCHANGED <<cliVars, fsVars, oqVars, params, now, lastWrite, inputVars, tpc, thumbErr, groupErr, out,
                   storage, uf, flushRef, flushLog, primaryFailed, callFailed>>

\* errGroup.Wait() returns when both goroutines are done
ThumbWait ==
    /\ pc = "wait"
    /\ \A t \in ThumbTasks : tpc[t] = "done"
    /\ ThumbReturn(groupErr)
    /\ UNCHANGED <<cliVars, fsVars, oqVars, params, now, lastWrite, inputVars, tpc, thumbErr, groupErr, out,
                   storage, uf, flushRef, flushLog, primaryFailed, callFailed>>

Next ==
    \/ UploadStart
    \/ CopyRead
    \/ SegmentUploaded
    \/ ScanRead
    \/ AppendRecord
    \/ PeriodicWritten
    \/ ScanDone
    \/ FinalWritten
    \/ Tick
    \/ ExtractThumbStart
    \/ RunFfmpeg
    \/ ThumbWait
    \/ \E t \in Tasks :
          \/ PrimaryWrite(t)
          \/ Failover(t)
          \/ BackupWrite(t)
          \/ OuterBackoff(t)
    \/ \E t \in ThumbTasks :
          \/ ThumbAssign(t)
          \/ ThumbCheck(t)
          \/ ThumbWrap(t)

Spec == Init /\ [][Next]_vars

\* Upload and its goroutines are scheduled, and every call they wait for
\* returns: SaveData and ffmpeg run with a timeout, a Read on the input returns
UploadLive == Spec /\ WF_vars(Next)

(***************************************************************************)
(* OverwriteQueue.                                                         *)
(***************************************************************************)
MaxPayloads == 33     \* the producer calls Save at most MaxPayloads times
MaxRetriesBound == 2  \* maxRetries is 1 .. MaxRetriesBound

overwriteQueueLength == 32

\* timeout = time.Duration(float64(timeout) * timeoutMultiplier)
Multiplied(t) == (t * 3) \div 2

\* the timeout of the attempt after a failed one
NextTimeout(t) == IF Multiplied(t) > maxTimeout THEN maxTimeout ELSE Multiplied(t)

\* a getLastMessage that leaves the payload it replaces in the queue
GetLastMessagePutsBack(current, q) ==
    IF q = <<>> THEN [res |-> current, queue |-> <<>>]
    ELSE [res |-> q[Len(q)], queue |-> <<current>>]

\* getLastMessage: the channel is emptied and the last payload received wins
GetLastMessage(current, q) ==
    [res |-> IF q = <<>> THEN current ELSE q[Len(q)], queue |-> <<>>]

\* initialTimeout and maxTimeout as passed to NewOverwriteQueue, which checks
\* neither: a pair in which the cap is the larger one, and one in which it is not
Timeouts == { <<4, 7>>, <<8, 7>> }

\* NewOverwriteQueue has returned: the channels exist and workerLoop runs
OQInit ==
    /\ UploadInit
    /\ outputURI = ManifestM3u8
    /\ waitBetweenWrites = 0
    /\ storageFallbackURLs = {}
    /\ maxRetries \in 1 .. MaxRetriesBound
    /\ \E tm \in Timeouts : initialTimeout = tm[1] /\ maxTimeout = tm[2]
    /\ queue = <<>>
    /\ quit = FALSE
    /\ stopTimer = FALSE
    /\ wpc = "select"
    /\ wdata = 0
    /\ try = 0
    /\ timeout = 0
    /\ object = 0
    /\ produced = 0
    /\ owed = FALSE
    /\ NoFS
    /\ NoCLI

\* Save: the send on the buffered channel, which waits while the buffer is full
Save ==
    /\ produced < MaxPayloads
    /\ Len(queue) < overwriteQueueLength
    /\ produced' = produced + 1
    /\ queue' = Append(queue, produced + 1)
    /\ UNCHANGED <<uploadVars, fsVars, cliVars, maxRetries, initialTimeout, maxTimeout, quit, stopTimer,
                   wpc, wdata, try, timeout, object, owed>>

\* StopAfter: the goroutine that will close quit is started
StopAfter ==
    /\ ~stopTimer
    /\ ~quit
    /\ stopTimer' = TRUE
    /\ UNCHANGED <<uploadVars, fsVars, cliVars, maxRetries, initialTimeout, maxTimeout, queue, quit, wpc,
                   wdata, try, timeout, object, produced, owed>>

\* the goroutine of StopAfter: the pause is over, close(oq.quit)
CloseQuit ==
    /\ stopTimer
    /\ stopTimer' = FALSE
    /\ quit' = TRUE
    /\ owed' = (queue # <<>>)
    /\ UNCHANGED <<uploadVars, fsVars, cliVars, maxRetries, initialTimeout, maxTimeout, queue, wpc, wdata,
                   try, timeout, object, produced>>

\* workerLoop, select: case data := <-oq.queue
Receive ==
    /\ wpc = "select"
    /\ queue # <<>>
    /\ wdata' = Head(queue)
    /\ queue' = Tail(queue)
    /\ timeout' = initialTimeout
    /\ try' = 0
    /\ wpc' = "loop"
    /\ UNCHANGED <<uploadVars, fsVars, cliVars, maxRetries, initialTimeout, maxTimeout, quit, stopTimer,
                   object, produced, owed>>

\* workerLoop, select: case <-oq.quit
Quit ==
    /\ wpc = "select"
    /\ quit
    /\ wpc' = "stopped"
    /\ UNCHANGED <<uploadVars, fsVars, cliVars, maxRetries, initialTimeout, maxTimeout, queue, quit,
                   stopTimer, wdata, try, timeout, object, produced, owed>>

\* a retry loop that calls getLastMessage before the first try only
AttemptDrainsOnce ==
    /\ wpc = "loop"
    /\ IF try < maxRetries
       THEN /\ wdata' = IF try = 0 THEN GetLastMessage(wdata, queue).res ELSE wdata
            /\ queue' = IF try = 0 THEN GetLastMessage(wdata, queue).queue ELSE queue
            /\ owed' = FALSE
            /\ wpc' = "save"
            /\ UNCHANGED <<try, timeout>>
       ELSE /\ wpc' = "select"
            /\ wdata' = 0
            /\ try' = 0
            /\ timeout' = 0
            /\ UNCHANGED <<queue, owed>>
    /\ UNCHANGED <<uploadVars, fsVars, cliVars, maxRetries, initialTimeout, maxTimeout, quit, stopTimer,
                   object, produced>>

\* a retry loop that makes one attempt more than maxRetries
AttemptOneMore ==
    /\ wpc = "loop"
    /\ IF try <= maxRetries
       THEN /\ wdata' = GetLastMessage(wdata, queue).res
            /\ queue' = GetLastMessage(wdata, queue).queue
            /\ owed' = FALSE
            /\ wpc' = "save"
            /\ UNCHANGED <<try, timeout>>
       ELSE /\ wpc' = "select"
            /\ wdata' = 0
            /\ try' = 0
            /\ timeout' = 0
            /\ UNCHANGED <<queue, owed>>
    /\ UNCHANGED <<uploadVars, fsVars, cliVars, maxRetries, initialTimeout, maxTimeout, quit, stopTimer,
                   object, produced>>

\* workerLoop, head of the retry loop: after maxRetries attempts the payload is
\* given up; otherwise getLastMessage runs and SaveData is called
Attempt ==
    /\ wpc = "loop"
    /\ IF try < maxRetries
       THEN /\ wdata' = GetLastMessage(wdata, queue).res
            /\ queue' = GetLastMessage(wdata, queue).queue
            /\ owed' = FALSE
            /\ wpc' = "save"
            /\ UNCHANGED <<try, timeout>>
       ELSE /\ wpc' = "select"
            /\ wdata' = 0
            /\ try' = 0
            /\ timeout' = 0
            /\ UNCHANGED <<queue, owed>>
    /\ UNCHANGED <<uploadVars, fsVars, cliVars, maxRetries, initialTimeout, maxTimeout, quit, stopTimer,
                   object, produced>>

\* session.SaveData returned nil: the object is the payload, break
SaveDataOk ==
    /\ wpc = "save"
    /\ object' = wdata
    /\ wpc' = "select"
    /\ wdata' = 0
    /\ try' = 0
    /\ timeout' = 0
    /\ UNCHANGED <<uploadVars, fsVars, cliVars, maxRetries, initialTimeout, maxTimeout, queue, quit,
                   stopTimer, produced, owed>>

\* a retry loop that returns when it finds quit closed after a failure
SaveDataFailedStopsOnQuit ==
    /\ wpc = "save"
    /\ timeout' = NextTimeout(timeout)
    /\ try' = try + 1
    /\ wpc' = IF quit THEN "stopped" ELSE "loop"
    /\ UNCHANGED <<uploadVars, fsVars, cliVars, maxRetries, initialTimeout, maxTimeout, queue, quit,
                   stopTimer, wdata, object, produced, owed>>

\* session.SaveData returned an error (the timeout included): next try
SaveDataFailed ==
    /\ wpc = "save"
    /\ timeout' = NextTimeout(timeout)
    /\ try' = try + 1
    /\ wpc' = "loop"
    /\ UNCHANGED <<uploadVars, fsVars, cliVars, maxRetries, initialTimeout, maxTimeout, queue, quit,
                   stopTimer, wdata, object, produced, owed>>

OQNext ==
    \/ Save
    \/ StopAfter
    \/ CloseQuit
    \/ Receive
    \/ Quit
    \/ Attempt
    \/ SaveDataOk
    \/ SaveDataFailed

OQSpec == OQInit /\ [][OQNext]_vars

\* the worker goroutine is scheduled, and a storage backend that is tried again
\* and again does not fail forever
OQFairness ==
    /\ WF_vars(Receive)
    /\ WF_vars(Attempt)
    /\ WF_vars(SaveDataOk \/ SaveDataFailed)
    /\ SF_vars(SaveDataOk)

OQLive == OQSpec /\ OQFairness

\* the worker goroutine is scheduled, SaveData returns (it has a timeout), and
\* a select that finds quit closed again and again takes that case at some
\* time: Go's select picks among the ready cases at random
OQStopFairness ==
    /\ WF_vars(Attempt)
    /\ WF_vars(SaveDataOk \/ SaveDataFailed)
    /\ SF_vars(Quit)

OQStop == OQSpec /\ OQStopFairness

(***************************************************************************)
(* FSSession.SaveData / FileHandler.Upload.                                *)
(***************************************************************************)
MaxFileLen == 2       \* the reader holds at most MaxFileLen bytes
ReadBufLen == 1       \* len(buf): a Read returns at most ReadBufLen bytes

\* the byte sequences the reader can hold
Payloads == UNION { [1..n -> Bytes] : n \in 0..MaxFileLen }

\* the session's path and the names saved under it
FSSessionPath == <<"/", "s">>
FSNames == { <<"a">>, <<"d", "/", "a">> }
FSBases == { <<>>, <<"/", "b">> }
\* what the destination file can hold before the call
FSOldContents == { <<>>, <<1>>, <<2, 1, 2>> }

\* path.Clean of a rooted path
Clean(p) ==
    LET cleaned == JoinElems(CleanElems(Split(p), <<>>))
    IN  IF cleaned = <<>> THEN <<"/">> ELSE cleaned

\* FSSession.getAbsolutePath
GetAbsolutePath(name) == Clean(FSSessionPath \o <<"/">> \o name)

\* FSSession.getAbsoluteURI
GetAbsoluteURI(name) ==
    IF fsBase # <<>> THEN Clean(fsBase \o <<"/">> \o GetAbsolutePath(name))
    ELSE GetAbsolutePath(name)

\* the file that the call creates: fullPath of SaveData, uri of Upload
FullPath == IF fsKind = "FileHandler" THEN fsName ELSE GetAbsoluteURI(fsName)

\* os.Create: the file exists and is empty
Create(fs, p) == [x \in DOMAIN fs \cup {p} |-> IF x = p THEN <<>> ELSE fs[x]]

\* a write that starts at the beginning of the file every time
WriteAtStart(fs, p, chunk) ==
    [fs EXCEPT ![p] = chunk \o SubSeq(@, Len(chunk) + 1, Len(@))]

\* file.Write(buf[:read]): the chunk is appended at the file's offset
Write(fs, p, chunk) == [fs EXCEPT ![p] = @ \o chunk]

\* What data.Read(buf) can return at position pos: some of the remaining
\* bytes, at most len(buf); the last of them with or without io.EOF; io.EOF
\* alone at the end; or an error of the reader.
FSReadOutcomes(bytes, pos) ==
    LET remaining == Len(bytes) - pos
        most == IF remaining < ReadBufLen THEN remaining ELSE ReadBufLen
    IN  { [n |-> k, err |-> NilErr] : k \in 1..most }
        \cup { [n |-> k, err |-> EOF] : k \in { j \in 0..most : j = remaining } }
        \cup { [n |-> 0, err |-> ReadFailure] }

FSReturn(p, e) == [path |-> p, err |-> e]

\* a call of SaveData or Upload is made, on any state of the destination file
FSInit ==
    /\ NoUpload
    /\ NoQueue
    /\ NoCLI
    /\ fsKind \in {"FSSession", "FileHandler"}
    /\ fsBase \in IF fsKind = "FSSession" THEN FSBases ELSE { <<>> }
    /\ fsName \in IF fsKind = "FSSession" THEN FSNames
                  ELSE { <<"/">> \o name : name \in FSNames }
    /\ fsData \in Payloads
    /\ fsPos = 0
    /\ fsCtxDone = FALSE
    /\ fsPc = "create"
    /\ files \in { [p \in {} |-> <<>>] }
                   \cup { [p \in {FullPath} |-> old] : old \in FSOldContents }
    /\ fsBefore = files
    /\ fsRet = FSReturn(<<>>, NilErr)

\* the context of the call is cancelled while the call runs
FSCancel ==
    /\ fsPc \in {"create", "loop"}
    /\ ~fsCtxDone
    /\ fsCtxDone' = TRUE
    /\ UNCHANGED <<uploadVars, oqVars, cliVars, fsKind, fsBase, fsName, fsData, fsPos, fsPc, files,
                   fsBefore, fsRet>>

\* os.MkdirAll (SaveData only) and os.Create: an error is returned, or the
\* file is created or truncated
FSCreate ==
    /\ fsPc = "create"
    /\ \/ /\ fsPc' = "done"
          /\ fsRet' = FSReturn(<<>>, Cause("create", FullPath))
          /\ UNCHANGED files
       \/ /\ files' = Create(files, FullPath)
          /\ fsPc' = "loop"
          /\ UNCHANGED fsRet
    /\ UNCHANGED <<uploadVars, oqVars, cliVars, fsKind, fsBase, fsName, fsData, fsPos, fsCtxDone,
                   fsBefore>>

\* one iteration of the loop, case <-ctx.Done()
FSCancelled ==
    /\ fsPc = "loop"
    /\ fsCtxDone
    /\ fsPc' = "done"
    /\ fsRet' = FSReturn(<<>>, Cause("context canceled", <<>>))
    /\ UNCHANGED <<uploadVars, oqVars, cliVars, fsKind, fsBase, fsName, fsData, fsPos, fsCtxDone,
                   files, fsBefore>>

\* one iteration of the loop, default case: a Read and the Write of what it returned
FSCopy ==
    /\ fsPc = "loop"
    /\ ~fsCtxDone
    /\ \E r \in FSReadOutcomes(fsData, fsPos) :
          IF r.err # NilErr /\ r.err # EOF
          THEN /\ fsPc' = "done"
               /\ fsRet' = FSReturn(<<>>, r.err)
               /\ UNCHANGED <<files, fsPos>>
          ELSE IF r.n > 0
               THEN \/ /\ files' = Write(files, FullPath, SubSeq(fsData, fsPos + 1, fsPos + r.n))
                       /\ fsPos' = fsPos + r.n
                       /\ UNCHANGED <<fsPc, fsRet>>
                    \/ /\ fsPc' = "done"
                       /\ fsRet' = FSReturn(<<>>, Cause("write", FullPath))
                       /\ fsPos' = fsPos + r.n
                       /\ UNCHANGED files
               ELSE /\ fsPc' = "done"
                    /\ fsRet' = FSReturn(FullPath, NilErr)
                    /\ UNCHANGED <<files, fsPos>>
    /\ UNCHANGED <<uploadVars, oqVars, cliVars, fsKind, fsBase, fsName, fsData, fsCtxDone, fsBefore>>

FSNext ==
    \/ FSCancel
    \/ FSCreate
    \/ FSCancelled
    \/ FSCopy

FSSpec == FSInit /\ [][FSNext]_vars

(***************************************************************************)
(* run(), the command line.                                                *)
(***************************************************************************)
\* the command lines: -version, -j, no argument, an empty argument, an
\* argument that url.Parse rejects, a destination URI
CommandLines == {"version", "describe", "missing", "empty", "unparsable", "uri"}

\* the process is started
CLIInit ==
    /\ UploadInit
    /\ NoQueue
    /\ NoFS
    /\ cliArgs \in CommandLines
    /\ cliArgs # "uri" => (outputURI = ManifestM3u8 /\ waitBetweenWrites = 0
                             /\ storageFallbackURLs = {})
    /\ cliVerbose \in BOOLEAN
    /\ cliPc = "start"
    /\ stdout = <<>>
    /\ exitCode = -1

\* run() up to the call of core.Upload
RunStart ==
    /\ cliPc = "start"
    /\ IF cliArgs = "version"
       THEN /\ stdout' = << <<"v">> >>
            /\ exitCode' = 0
            /\ cliPc' = "exit"
       ELSE IF cliArgs = "describe"
       THEN /\ stdout' = << <<"j">> >>
            /\ exitCode' = 0
            /\ cliPc' = "exit"
       ELSE IF cliArgs \in {"missing", "empty", "unparsable"}
       THEN /\ exitCode' = 1
            /\ cliPc' = "exit"
            /\ UNCHANGED stdout
       ELSE /\ cliPc' = "upload"
            /\ UNCHANGED <<stdout, exitCode>>
    /\ UNCHANGED <<uploadVars, oqVars, fsVars, cliArgs, cliVerbose>>

\* core.Upload runs
RunUpload ==
    /\ cliPc = "upload"
    /\ Next

\* run() after core.Upload returned: exit code 1 for an error; otherwise the
\* URI is written in JSON to the saved stdout if glog.V(5), and the exit code
\* is 0 unless that write fails
RunReport ==
    /\ cliPc = "upload"
    /\ pc = "done"
    /\ cliPc' = "exit"
    /\ IF result.err # NilErr
       THEN /\ exitCode' = 1
            /\ UNCHANGED stdout
       ELSE IF cliVerbose
       THEN \/ /\ stdout' = <<outputURI>>
               /\ exitCode' = 0
            \/ /\ exitCode' = 1
               /\ UNCHANGED stdout
       ELSE /\ exitCode' = 0
            /\ UNCHANGED stdout
    /\ UNCHANGED <<uploadVars, oqVars, fsVars, cliArgs, cliVerbose>>

CLINext ==
    \/ RunStart
    \/ RunUpload
    \/ RunReport

CLISpec == CLIInit /\ [][CLINext]_vars

(***************************************************************************)
(* Properties.                                                             *)
(***************************************************************************)
\* all the bytes the Read calls on the input have returned
Input == ConcatReads(reads, Len(reads))

\* the last Read call failed
ReadFailed == reads # <<>> /\ reads[Len(reads)].err = ReadFailure

\* the destination ends in .ts or .mp4
SegmentDestination == HasSuffix(outputURI, DotTs) \/ HasSuffix(outputURI, DotMp4)

\* C1: Segment mode round trip.  When Upload has returned for a destination
\* ending in .ts or .mp4, the input was read to its end and no uploadFile on
\* the primary destination failed, then Upload returned no error, the result's
\* URL is the destination and the object stored there is the input.
C1_SegmentRoundTrip ==
    (pc = "done" /\ SegmentDestination /\ ~ReadFailed /\ ~primaryFailed)
        => /\ result.err = NilErr
           /\ result.out = outputURI
           /\ Stored(outputURI) = Input

C1_Witness ==
    /\ pc = "done"
    /\ SegmentDestination
    /\ ~ReadFailed
    /\ ~primaryFailed
    /\ Input = <<1, 2>>

\* C2: Failover success is call success.  When uploadFileWithBackup has
\* returned and a SaveData on a URI other than the destination succeeded
\* during the call, the error is nil, the result's URL is that URI, which is
\* a backup URI of the destination, bytesWritten is the length of the file,
\* and the object stored at the backup is the file.
C2_FailoverSuccess ==
    \A t \in Tasks :
        (uf[t].pc = "ret" /\ uf[t].saved # <<>> /\ uf[t].saved # uf[t].uri)
            => /\ uf[t].err = NilErr
               /\ uf[t].out = uf[t].saved
               /\ uf[t].saved \in BuildBackupURI(uf[t].uri, storageFallbackURLs)
               /\ uf[t].bytesWritten = Len(FileContent(uf[t].file))
               /\ Stored(uf[t].saved) = FileContent(uf[t].file)

C2_Witness ==
    /\ uf["main"].pc = "ret"
    /\ uf["main"].saved # <<>>
    /\ uf["main"].saved # uf["main"].uri
    /\ Len(inputFile) = 2

\* C3: When backoff.Retry gives up after an attempt in which the write to the
\* primary and the write to the backup both failed, the error that
\* uploadFileWithBackup returns contains the cause of the primary failure and
\* the cause of the backup failure.
C3_BothCauses ==
    [][\A t \in Tasks :
          (uf[t].pc = "backoff" /\ uf'[t].pc = "ret" /\ uf[t].backupErr # NilErr)
              => /\ uf[t].primaryErr # NilErr
                 /\ uf[t].primaryErr \subseteq uf'[t].err
                 /\ uf[t].backupErr \subseteq uf'[t].err]_vars

C3_Witness ==
    /\ uf["main"].pc = "ret"
    /\ Cause("save", uf["main"].uri) \subseteq uf["main"].err
    /\ \E b \in BuildBackupURI(uf["main"].uri, storageFallbackURLs) :
          Cause("save", b) \subseteq uf["main"].err

\* the URI at which the final write of the manifest stored its payload
FinalLocation == uf["main"].saved

\* C4: Manifest mode final content.  When Upload has returned without error
\* for a destination that is no segment, the object stored by the final write
\* is the concatenation of all records the Read calls returned, in order.
C4_FinalContent ==
    (pc = "done" /\ ~SegmentDestination /\ result.err = NilErr)
        => /\ FinalLocation # <<>>
           /\ Stored(FinalLocation) = Input

\* C5: Manifest mode payload.  Whenever a periodic or final write is under
\* way, the file it uploads is the concatenation of every record returned by
\* the Read calls so far, the record returned together with io.EOF included.
C5_PayloadIsAllRecords ==
    (pc \in {"periodic", "final"} /\ uf["main"].pc # "idle")
        => FileContent(uf["main"].file) = Input

\* the final write was made and no SaveData of it succeeded
FinalFlushFailed ==
    /\ uf["main"].site = "final"
    /\ uf["main"].pc = "ret"
    /\ uf["main"].saved = <<>>

\* C6: Manifest mode error reporting.  When Upload has returned for a
\* destination that is no segment, it returned an error if and only if the
\* last Read failed or the final write failed; failed periodic writes change
\* neither.
C6_ManifestErrors ==
    (pc = "done" /\ ~SegmentDestination)
        => ((result.err # NilErr) <=> (ReadFailed \/ FinalFlushFailed))

C6_Witness ==
    /\ pc = "done"
    /\ ~SegmentDestination
    /\ Len(flushLog) = 2
    /\ flushLog[1]
    /\ result.err = NilErr

\* C7: Manifest mode final flush uses the persistent retry profile.  When
\* backoff.Retry gives up on the final write after the primary and the backup
\* failed, the operation has run more than once.
C7_FinalFlushRetried ==
    [][(/\ uf["main"].site = "final"
        /\ uf["main"].pc = "backoff"
        /\ uf["main"].backupErr # NilErr
        /\ uf'["main"].pc = "ret")
          => uf["main"].outer > 1]_vars

\* C8: Manifest mode flush cadence.  After a record has been appended, a
\* periodic write is started if and only if more than waitBetweenWrites has
\* elapsed since the previous periodic write returned (with or without an
\* error) or, before the first one, since Upload started.
C8_FlushCadence ==
    [][(pc = "append" /\ pc' # "append")
          => ((pc' = "periodic" /\ uf'["main"].pc = "primary")
                 <=> (now > flushRef + waitBetweenWrites))]_vars

C8_Witness ==
    /\ pc = "periodic"
    /\ uf["main"].pc = "primary"
    /\ Len(flushLog) = 1
    /\ flushLog[1]
    /\ waitBetweenWrites = 1

FfmpegFailed == Cause("ffmpeg failed", <<>>) \subseteq thumbRet

\* C9: Segment mode with a failing thumbnail tool.  When Upload has returned
\* after ffmpeg failed, it returned the result of the segment write with a nil
\* error, no thumbnail goroutine was started, and no object of the store holds
\* a thumbnail.
C9_FfmpegFailure ==
    (pc = "done" /\ FfmpegFailed)
        => /\ result.err = NilErr
           /\ result.out # <<>>
           /\ Stored(result.out) = Input
           /\ \A t \in ThumbTasks : tpc[t] = "idle" /\ uf[t] = IdleCall
           /\ \A u \in DOMAIN storage : storage[u] # Image

C9_Witness ==
    /\ pc = "done"
    /\ FfmpegFailed
    /\ primaryFailed
    /\ Input = <<1, 2>>

\* C10: Thumbnail fan-out error reporting.  When extractThumb has returned
\* after the fan-out and the uploadFileWithBackup of at least one goroutine
\* returned an error, extractThumb returned a non-nil error.
C10_FanOutError ==
    (pc = "done" /\ \E t \in ThumbTasks : callFailed[t]) => thumbRet # NilErr

\* Upload returns to its caller in this step
UploadReturns == pc # "done" /\ Next /\ pc' = "done"

\* C11: Segment mode triggers the thumbnails asynchronously.  After the
\* segment was written, while a thumbnail upload is still running, Upload can
\* return the segment's result: its return does not wait for the uploads.
C11_ReturnDoesNotWait ==
    (pc = "wait" /\ \E t \in ThumbTasks : Running(t)) => ENABLED UploadReturns

\* the positions of Upload on the segment path and on the manifest path
SegmentPath == {"copy", "segment", "thumb", "ffmpeg", "wait"}
ManifestPath == {"scan", "scanned", "append", "periodic", "final"}

\* C12: Artifact classification.  Upload is on the segment path (copy of the
\* whole input, one write with retries, thumbnails) only for a destination
\* whose path ends in .ts or .mp4, and on the manifest path (appends, periodic
\* writes, final write) only for every other destination; once started it is
\* on one of the two, and a finished call has made periodic or final writes
\* only for a destination that is no segment.
C12_Classification ==
    /\ pc \in SegmentPath \cup ManifestPath \cup {"start", "done"}
    /\ (pc \in SegmentPath \/ uf["main"].site = "segment" \/ out # <<>>
          \/ \E t \in ThumbTasks : tpc[t] # "idle")
         => SegmentDestination
    /\ (pc \in ManifestPath \/ uf["main"].site \in {"periodic", "final"}
          \/ flushLog # <<>> \/ token # <<>>)
         => ~SegmentDestination

C12_Witness ==
    /\ pc = "periodic"
    /\ outputURI = ManifestNoExt
    /\ Contains(Path(outputURI), DotTs)

\* C13: Coalescing writer liveness.  When the producer has enqueued P1, P2
\* and P3 and nothing after P3, the worker is never stopped and the backend
\* does not fail forever, then the stored object eventually is P3 and stays P3.
C13_EventuallyNewest ==
    ([]~quit /\ <>[](produced = 3)) => <>[](object = 3)

\* C14: Coalescing writer ordering.  Every successful SaveData of the worker
\* stores a payload that was enqueued after the payload stored before it: the
\* stored object never goes back to an older payload.
C14_PersistedInOrder ==
    [][(wpc = "save" /\ wpc' = "select") => (object' = wdata /\ wdata > object)]_vars

C14_Witness ==
    /\ object = 2
    /\ wpc = "save"
    /\ wdata = 4
    /\ queue = <<5>>

\* C15: Coalescing writer stop.  When quit was closed while a payload was
\* waiting in the queue, the worker has made a save attempt with the newest
\* payload enqueued (an attempt whose getLastMessage ran after the close)
\* before its loop exits.
C15_LastAttemptBeforeExit == wpc = "stopped" => ~owed

\* C16: Save never blocks the producer.  In every state (the worker inside
\* SaveData, the queue holding overwriteQueueLength payloads, the worker
\* stopped) the send of a Save call can complete.
C16_SaveNeverBlocks == (wpc # "none" /\ produced < MaxPayloads) => ENABLED Save

\* C17: Failover tie-break.  When the primary write of a call has failed,
\* buildBackupURI has one possible result for the destination and the
\* failover map: two calls with the same arguments give the same backup URI.
C17_BackupURIDeterministic ==
    \A t \in Tasks :
        uf[t].pc = "failover"
            => Cardinality(BuildBackupURI(uf[t].uri, storageFallbackURLs)) <= 1

\* the operation of the call failed on a configuration error: a destination
\* without a storage driver, or no failover mapping for the destination
ConfigurationError(c) ==
    \/ \E x \in c.opErr : x[1] = "driver"
    \/ BuildBackupURI(c.uri, storageFallbackURLs) = {}

\* C18: Configuration errors are not retried.  When the operation of
\* uploadFileWithBackup has failed because a destination has no storage driver
\* or because no failover mapping matches, the call returns the error without
\* running the operation again, also with retries.
C18_ConfigErrorNotRetried ==
    [][\A t \in Tasks :
          (uf[t].pc = "backoff" /\ ConfigurationError(uf[t]) /\ uf'[t] # uf[t])
              => uf'[t].pc = "ret"]_vars

\* C19: Input stream errors are fatal.  Once a Read has failed, no
\* uploadFileWithBackup runs and no final write is made; Upload returns at
\* once or after scanner.Err(), with an error and no result; for a segment
\* the object store has received nothing.
C19_ReadErrorFatal ==
    ReadFailed
        => /\ pc \in {"scanned", "done"}
           /\ \A t \in Tasks : uf[t] = IdleCall
           /\ SegmentDestination => DOMAIN storage = {}
           /\ pc = "done" => (result.err # NilErr /\ result.out = <<>>)

C19_Witness ==
    /\ pc = "done"
    /\ ReadFailed
    /\ ~SegmentDestination
    /\ flushLog = <<FALSE>>
    /\ Len(reads) = 2

\* C20: Bytes written.  When uploadFileWithBackup has returned, its
\* bytesWritten is the number of bytes that the last attempt it made read
\* from the file (nothing for an uploadFile that failed before SaveData), and
\* never more than the file holds.
C20_BytesOfLastAttempt ==
    \A t \in Tasks :
        uf[t].pc = "ret"
            => /\ uf[t].bytesWritten = uf[t].consumed
               /\ uf[t].bytesWritten <= Len(FileContent(uf[t].file))

C20_Witness ==
    /\ uf["main"].pc = "ret"
    /\ primaryFailed
    /\ uf["main"].saved # <<>>
    /\ uf["main"].saved # uf["main"].uri
    /\ uf["main"].bytesWritten = 2

\* C21: Upload result on success.  When Upload has returned a nil error, it
\* has returned the result of the write that succeeded, for a segment and
\* for a manifest alike.
C21_ResultOnSuccess ==
    (pc = "done" /\ result.err = NilErr)
        => (result.out # <<>> /\ Stored(result.out) = inputFile)

\* the destination u with its leading prefix e.primary exchanged for e.backup
PrefixExchanged(u, e) == e.backup \o SubSeq(u, Len(e.primary) + 1, Len(u))

\* C23: buildBackupURI result.  For the destination of every call, each
\* possible result of buildBackupURI is the destination with a leading primary
\* prefix of the failover map replaced by its backup prefix and the rest
\* unchanged; there is no result (an error) exactly when no primary prefix is a
\* prefix of the destination; and the backup write goes to such a result.
C23_BackupURIResult ==
    \A t \in Tasks :
        uf[t].uri # <<>> =>
            LET u == uf[t].uri
                matching == { e \in storageFallbackURLs : HasPrefix(u, e.primary) }
            IN  /\ BuildBackupURI(u, storageFallbackURLs)
                     = { PrefixExchanged(u, e) : e \in matching }
                /\ (BuildBackupURI(u, storageFallbackURLs) = {}) <=> (matching = {})
                /\ uf[t].backupURI # <<>>
                     => \E e \in matching : uf[t].backupURI = PrefixExchanged(u, e)

C23_Witness ==
    /\ uf["main"].pc = "backup"
    /\ uf["main"].uri = SegmentTs
    /\ uf["main"].backupURI = <<"c", "/", "d", "/", "x", ".", "t", "s">>

\* C26: Failover ordering.  In every call a write to the backup starts only
\* from buildBackupURI, after the primary write of the same run of the
\* operation returned an error and a failover mapping matched; a run of the
\* operation that follows a failed one starts at the primary, with the
\* errors of the failed run forgotten.
C26_FailoverOrdering ==
    [][\A t \in Tasks :
          /\ (uf'[t].pc = "backup" /\ uf[t].pc # "backup")
                => /\ uf[t].pc = "failover"
                   /\ uf[t].primaryErr # NilErr
                   /\ uf'[t].primaryErr = uf[t].primaryErr
                   /\ uf'[t].backupURI \in BuildBackupURI(uf[t].uri, storageFallbackURLs)
                   /\ uf'[t].outer = uf[t].outer
          /\ uf[t].pc = "backup" => uf[t].primaryErr # NilErr
          /\ (uf[t].pc \in {"idle", "ret", "backoff"} /\ uf'[t].pc \notin {"idle", "ret", "backoff"})
                => /\ uf'[t].pc = "primary"
                   /\ uf'[t].primaryErr = NilErr
                   /\ uf'[t].backupURI = <<>>]_vars

C26_Witness ==
    /\ uf["main"].pc = "backup"
    /\ uf["main"].outer = 2
    /\ uf["main"].primaryErr # NilErr

\* C27: Retry exhaustion.  A call of uploadFileWithBackup in which a write
\* has succeeded has returned, with a nil error and that write's result, so
\* that no write follows the successful one; a call that has returned an
\* error has made no successful write.
C27_ErrorOnlyWhenAllFailed ==
    \A t \in Tasks :
        /\ uf[t].saved # <<>>
              => /\ uf[t].pc = "ret"
                 /\ uf[t].err = NilErr
                 /\ uf[t].out = uf[t].saved
                 /\ Stored(uf[t].saved) = FileContent(uf[t].file)
        /\ (uf[t].pc = "ret" /\ uf[t].err # NilErr)
              => (uf[t].saved = <<>> /\ uf[t].out = <<>>)

C27_Witness ==
    /\ uf["main"].pc = "ret"
    /\ uf["main"].withRetries
    /\ uf["main"].err # NilErr
    /\ uf["main"].saved = <<>>
    /\ uf["main"].consumed = 2

\* C28: Retry composition.  Within one run of the operation of
\* uploadFileWithBackup the primary destination receives a single write: a
\* failed SaveData on the primary is followed by the failover, never by
\* another SaveData on the primary in the same run.
C28_PrimaryWrittenOncePerRun ==
    [][\A t \in Tasks :
          (uf[t].pc = "primary" /\ uf'[t] # uf[t]) => uf'[t].pc # "primary"]_vars

\* C29: Best-effort periodic flush.  A periodic write runs its operation
\* once, and in it makes at most one SaveData on the primary destination and
\* at most one on the backup: it is never retried.
C29_PeriodicNotRetried ==
    uf["main"].site = "periodic"
        => /\ ~uf["main"].withRetries
           /\ uf["main"].outer <= 1
           /\ uf["main"].inner <= 1
           /\ pc = "periodic"

C29_Witness ==
    /\ uf["main"].site = "periodic"
    /\ uf["main"].pc = "backoff"
    /\ uf["main"].backupErr # NilErr
    /\ uf["main"].consumed = 1

\* C30: Manifest mode final flush count.  When the scan loop has ended
\* without a read error, the next step of Upload starts the final write,
\* whatever was read and whenever the last periodic write was made; the final
\* write starts only there, no periodic write follows it, and Upload returns
\* when it has returned: exactly one final write is made.
C30_OneFinalFlush ==
    [][/\ (pc = "scanned" /\ ScannerErr = NilErr /\ pc' # pc)
            => /\ pc' = "final"
               /\ uf'["main"].site = "final"
               /\ uf'["main"].pc = "primary"
               /\ FileContent(uf'["main"].file) = inputFile
       /\ (pc' = "final" /\ pc # "final") => (pc = "scanned" /\ ScannerErr = NilErr)
       /\ pc = "final" => (pc' \in {"final", "done"} /\ uf'["main"].site = "final")
       /\ pc = "done" => pc' = "done"]_vars

C30_Witness ==
    /\ pc = "done"
    /\ ~SegmentDestination
    /\ Len(reads) = 1
    /\ reads[1].data = <<>>
    /\ outputURI \in DOMAIN storage
    /\ storage[outputURI] = <<>>

\* where the call is asked to save: the base, the session's path and the name
SavedPath ==
    IF fsKind = "FileHandler" THEN fsName
    ELSE fsBase \o FSSessionPath \o <<"/">> \o fsName

StrictPrefix(s, t) == Len(s) < Len(t) /\ SubSeq(t, 1, Len(s)) = s

\* C22: No partial object.  When SaveData or Upload has returned an error,
\* a destination file that existed before the call still holds its old
\* content, and a destination file that did not exist is absent or does not
\* hold a strict prefix of the reader's bytes.
C22_NoPartialObject ==
    (fsPc = "done" /\ fsRet.err # NilErr)
        => IF SavedPath \in DOMAIN fsBefore
           THEN SavedPath \in DOMAIN files /\ files[SavedPath] = fsBefore[SavedPath]
           ELSE SavedPath \in DOMAIN files => ~StrictPrefix(files[SavedPath], fsData)

C25_CommandLine ==
    (cliPc = "exit" /\ cliArgs \notin {"version", "describe"})
        => IF cliArgs = "uri" /\ result.err = NilErr
           THEN exitCode = 0 /\ stdout = <<outputURI>>
           ELSE exitCode # 0 /\ stdout = <<>>

\* the Read calls on the input have reached end-of-data
InputEnded == reads # <<>> /\ reads[Len(reads)].err = EOF

\* the URIs at which uploadFileWithBackup can store the segment
SegmentLocations == {outputURI} \cup BuildBackupURI(outputURI, storageFallbackURLs)

\* C31: Segment mode never writes a partial segment.  For a destination
\* ending in .ts or .mp4, nothing is stored and no uploadFileWithBackup is
\* entered before a Read on the input has returned end-of-data; while the
\* segment's call is under way, in its first attempt and in every retry, on
\* the primary and on the backup, the file it uploads is the whole input; and
\* an object stored at the destination or at its backup is the whole input.
C31_NoPartialSegment ==
    SegmentDestination
        => /\ (DOMAIN storage # {} \/ \E t \in Tasks : uf[t].pc # "idle") => InputEnded
           /\ (uf["main"].site = "segment" /\ uf["main"].pc # "idle")
                 => FileContent(uf["main"].file) = Input
           /\ \A u \in SegmentLocations \cap DOMAIN storage : storage[u] = Input

C31_Witness ==
    /\ SegmentDestination
    /\ uf["main"].site = "segment"
    /\ uf["main"].pc = "backup"
    /\ uf["main"].outer = 2
    /\ uf["main"].inner = 2
    /\ Len(reads) = 3
    /\ Input = <<1, 2>>

\* an entry of the disable list occurs in the path of the destination
EntryContained == \E id \in disableThumbs : Contains(Path(outputURI), id)

\* ffmpeg is started by this step
FfmpegInvoked == pc # "ffmpeg" /\ pc' = "ffmpeg"

\* C32: Thumbnail trigger.  ffmpeg is started only from extractThumb called
\* for a destination ending in .ts or .mp4, when the segment is stored at the
\* URL its upload returned, and when no entry of disableThumbs occurs in the
\* path of the destination.  When an entry occurs, extractThumb returns nil
\* in one step that starts no ffmpeg, creates no file, starts no upload and
\* stores nothing, and Upload returns the segment's result without an error.
C32_ThumbnailTrigger ==
    [][/\ FfmpegInvoked
            => /\ pc = "thumb"
               /\ SegmentDestination
               /\ ~EntryContained
               /\ out \in SegmentLocations
               /\ Stored(out) = Input
       /\ (pc = "thumb" /\ EntryContained)
            => /\ pc' = "done"
               /\ thumbRet' = NilErr
               /\ result' = Return(out, NilErr)
               /\ UNCHANGED <<storage, uf, tpc, thumbFile, tmpDir>>
               /\ thumbFile = <<>> /\ ~tmpDir]_vars

C32_Witness ==
    /\ pc = "done"
    /\ EntryContained
    /\ result.err = NilErr
    /\ result.out \in BuildBackupURI(outputURI, storageFallbackURLs)
    /\ Stored(result.out) = <<1, 2>>
    /\ \A u \in DOMAIN storage : u = result.out

\* the URIs at which the upload of thumbnail task t can store the image
ThumbLocations(t) == {ThumbURL(t)} \cup BuildBackupURI(ThumbURL(t), storageFallbackURLs)

\* the causes in e that come from a write or from the choice of a driver
WriteCauses(e) == { c \in e : c[1] \in {"save", "driver"} }

AttemptStarts == wpc = "loop" /\ wpc' = "save"

\* C34: Coalescing worker freshness.  Every save attempt of workerLoop, the
\* first one for a received payload and each retry, starts with an empty
\* queue and sends the payload of the latest Save call made so far; the
\* payload a successful attempt stores is the one the attempt started with,
\* so no payload that an earlier Save enqueued is stored by it or later.
C34_WorkerFreshness ==
    [][/\ AttemptStarts => (wdata' = produced /\ queue' = <<>>)
       /\ (wpc = "save" /\ object' # object)
            => /\ object' = wdata
               /\ object' > object
               /\ \A i \in 1 .. Len(queue) : queue[i] > object']_vars

C34_Witness ==
    /\ wpc = "save"
    /\ try = 1
    /\ wdata = 3
    /\ produced = 3
    /\ object = 1
    /\ queue = <<>>

\* q is what is left of p after payloads were taken from its front
IsSuffix(q, p) == \E k \in 0 .. Len(p) : q = SubSeq(p, k + 1, Len(p))

\* C35: Coalescing worker retry bound.  try counts the failed attempts since
\* the last receive: an attempt is made only while it is below maxRetries.
\* After the attempt that makes it maxRetries the worker goes back to the
\* select with nothing stored and without the payload, and it leaves the
\* select for a new attempt only by receiving from a non-empty queue.  The
\* queue changes only by a Save that appends a new payload or by the worker
\* taking payloads from its front, so that a payload given up is not
\* attempted again.
C35_RetryBound ==
    [][/\ try <= maxRetries
       /\ wpc = "save" => try < maxRetries
       /\ (wpc = "save" /\ wpc' = "loop") => try' = try + 1
       /\ (wpc = "loop" /\ wpc' # wpc /\ try = maxRetries)
            => /\ wpc' = "select"
               /\ wdata' = 0
               /\ object' = object
               /\ queue' = queue
       /\ (wpc = "select" /\ wpc' = "loop")
            => /\ queue # <<>>
               /\ wdata' = Head(queue)
               /\ try' = 0
       /\ AttemptStarts => wpc = "loop"
       /\ \/ queue' = Append(queue, produced + 1) /\ produced' = produced + 1
          \/ IsSuffix(queue', queue) /\ produced' = produced]_vars

C35_Witness ==
    /\ wpc = "select"
    /\ maxRetries = 2
    /\ queue = <<>>
    /\ produced = 2
    /\ object = 1
    /\ ~quit
    /\ ~stopTimer

\* C36: Coalescing worker backoff.  The first save attempt after a receive,
\* and so the first one after a success, has the timeout initialTimeout;
\* after a failed attempt the timeout of the next attempt for the payload is
\* 1.5 times the last one, or maxTimeout if that is less; and no save attempt
\* has a timeout above maxTimeout.
C36_TimeoutBackoff ==
    [][/\ (wpc = "select" /\ wpc' = "loop") => timeout' = initialTimeout
       /\ (wpc = "save" /\ wpc' = "loop")
            => timeout' = IF Multiplied(timeout) > maxTimeout THEN maxTimeout
                          ELSE Multiplied(timeout)
       /\ AttemptStarts => timeout' = timeout
       /\ wpc' = "save" => timeout' <= maxTimeout]_vars

\* C37: Coalescing queue bound.  The queue never holds more than
\* overwriteQueueLength payloads, and a Save replaces the payloads that are
\* waiting: after it the queue holds the new payload only.
C37_QueueBound ==
    [][/\ Len(queue') <= overwriteQueueLength
       /\ produced' = produced + 1 => queue' = <<produced'>>]_vars

\* C38: Coalescing worker shutdown.  Once quit is closed, workerLoop returns
\* at some time; after it has returned its position and the stored object
\* no longer change; and it returns from the select only, with quit closed,
\* never from inside the retry loop or a SaveData.
C38_Shutdown ==
    /\ quit ~> (wpc = "stopped")
    /\ [][/\ wpc = "stopped" => (wpc' = "stopped" /\ object' = object)
          /\ (wpc # "stopped" /\ wpc' = "stopped") => (wpc = "select" /\ quit)
          /\ (quit /\ wpc = "save" /\ wpc' # wpc) => wpc' \in {"select", "loop"}
          /\ (quit /\ wpc = "loop" /\ wpc' # wpc)
               => wpc' = IF try < maxRetries THEN "save" ELSE "select"]_vars

C38_Witness ==
    /\ quit
    /\ wpc = "save"
    /\ try = 1
    /\ wdata = 2
    /\ queue = <<3>>

\* C39: Upload terminates once its input has ended.  From the time a Read on
\* the input has returned end-of-data, Upload returns at some time, for a
\* segment and for a manifest, whatever the storage writes do.
C39_Terminates == InputEnded ~> (pc = "done")

C39_Witness ==
    /\ pc = "done"
    /\ InputEnded
    /\ SegmentDestination
    /\ DOMAIN storage = {}
    /\ Cause("save", outputURI) \subseteq result.err
    /\ \E b \in BuildBackupURI(outputURI, storageFallbackURLs) :
          Cause("save", b) \subseteq result.err

====
